---- MODULE Spec2Model ----
(***************************************************************************)
(* A model of mailru_cloud_fuse: the FUSE operations adapter (MRUC) with   *)
(* its per-path write-back cache (CachedFile) over an abstract remote      *)
(* store, the retry policies of the remote-store client and the paginated  *)
(* directory listing.                                                      *)
(*                                                                         *)
(* Paths are tuples of components: "/a" is <<"a">>, "/d/a" is <<"d","a">>. *)
(* Python's None for CachedFile.path is the empty tuple.                   *)
(***************************************************************************)
EXTENDS Integers, Sequences, FiniteSets, TLC

VARIABLES
    fd,       \* MRUC.fd: the handle counter
    files,    \* MRUC.files: handle -> CachedFile object (by object id)
    objs,     \* the CachedFile objects the table refers to: id -> fields
    remote,   \* the remote store: path -> node
    opened,   \* history: handles returned to the kernel and not yet released
    last,     \* history: the last adapter operation and how it ended
    chain,    \* history: the run of operations that ended with the last one
    rt,       \* a call through retry_on_server_error beside a call of upload_blob
    dl,       \* a call of Cloud.dir_list
    rq,       \* a call of one decorated operation of Cloud, answer by answer
    rv        \* a call of CachedFile._retrieve, attempt by attempt

vars == <<fd, files, objs, remote, opened, last, chain, rt, dl, rq, rv>>

-----------------------------------------------------------------------------
(* Bounds of the model *)

\* the handle counter stops here
MaxFd == 2
\* longest file content, in bytes
MaxLen == 1
\* longest length truncate is called with
MaxTruncate == 0

(* Program constants *)

ENOENT == 2
EACCES == 13
ENOTSUP == 95
\* CachedFile._retrieve: retries = 10
retrieve_retries == 10

-----------------------------------------------------------------------------
(* Paths *)

NoPath == << >>
PathA == <<"a">>
PathB == <<"b">>
PathD == <<"d">>
PathDA == <<"d", "a">>
AllPaths == {PathA, PathB, PathD, PathDA}
FilePaths == {PathA, PathB}
RenamePaths == {PathA, PathB, PathDA}

\* os.path.dirname / os.path.basename on a path of at least one component
dirname(p) == SubSeq(p, 1, Len(p) - 1)
basename(p) == p[Len(p)]

(* File contents: byte strings of at most MaxLen bytes over {0, 1} *)

Byte == {0, 1}
Contents == UNION {[1..n -> Byte] : n \in 0..MaxLen}
\* what the kernel writes: runs of the byte 1 (0 is what a gap reads as)
Buffers == {[i \in 1..n |-> 1] : n \in 1..MaxLen}
Min(a, b) == IF a < b THEN a ELSE b
Zeros(n) == [i \in 1..n |-> 0]

\* file.seek(off); file.write(buf): a gap past the end reads as zeros
WriteAt(data, off, buf) ==
    LET base == IF Len(data) < off THEN data \o Zeros(off - Len(data)) ELSE data
    IN  SubSeq(base, 1, off) \o buf \o SubSeq(base, off + Len(buf) + 1, Len(base))

\* file.seek(off); file.read(size): short at the end of the file
ReadAt(data, size, off) == SubSeq(data, off + 1, Min(off + size, Len(data)))

\* file.truncate(n): cut, or extend with zeros
TruncTo(data, n) ==
    IF n <= Len(data) THEN SubSeq(data, 1, n) ELSE data \o Zeros(n - Len(data))

-----------------------------------------------------------------------------
(* The remote store *)

Absent == [kind |-> "none", data |-> << >>, body |-> FALSE]
Folder == [kind |-> "folder", data |-> << >>, body |-> FALSE]
File(data, body) == [kind |-> "file", data |-> data, body |-> body]

\* Cloud.file_exists: False | "file" | "folder" ("none" stands for False)
file_exists(rem, p) == rem[p].kind

\* Cloud.api_file_remove: the remote removes the node and what is below it
api_file_remove(rem, p) ==
    [q \in DOMAIN rem |->
        IF Len(q) >= Len(p) /\ SubSeq(q, 1, Len(p)) = p THEN Absent ELSE rem[q]]

\* Cloud.upload_file: upload_blob, then api_file_add binds the blob to the path
upload_file(rem, p, data) == [rem EXCEPT ![p] = File(data, TRUE)]

-----------------------------------------------------------------------------
(* CachedFile *)

\* CachedFile.__init__
NewCachedFile(p) ==
    [path |-> p, fd |-> "none", data |-> << >>, changed |-> FALSE, ref_count |-> 1]

\* CachedFile.inc_ref: one that forgets to count
inc_ref_lost(cf) == cf

inc_ref(cf) == [cf EXCEPT !.ref_count = @ + 1]
dec_ref(cf) == [cf EXCEPT !.ref_count = @ - 1]
has_refs(cf) == cf.ref_count > 0

\* What a CachedFile method leaves: the object, the remote store, the
\* exception that ended it ("none": it returned), a FUSE errno, the remote
\* calls and the uploads it issued, and the bytes it returned.
Res(cf, rem, exc, errno, calls, uploads, data) ==
    [cf |-> cf, rem |-> rem, exc |-> exc, errno |-> errno,
     calls |-> calls, uploads |-> uploads, data |-> data]

Ok(cf, rem, calls, uploads) == Res(cf, rem, "none", 0, calls, uploads, << >>)

\* The strict prefixes of a content: what a cut download stream delivers
StrictPrefixes(data) == {SubSeq(data, 1, n) : n \in 0..(Len(data) - 1)}

\* CachedFile._retrieve. mism: how many download attempts in a row deliver
\* a byte count other than the expected size; part: what the last of them
\* delivered.
retrieve(cf, rem, mism, part) ==
    IF cf.fd # "none" THEN Ok(cf, rem, 0, 0)
    ELSE IF cf.path = NoPath THEN Res(cf, rem, "FuseOSError", EACCES, 0, 0, << >>)
    ELSE
      LET fresh == [cf EXCEPT !.fd = "open", !.data = << >>]
          node == rem[cf.path]
      IN  IF node.kind = "none"
          THEN Res(fresh, rem, "FuseOSError", ENOENT, 1, 0, << >>)
          ELSE IF ~node.body
          THEN Ok(fresh, rem, 2, 0)
          ELSE IF mism = 0 \/ node.data = << >>
          THEN Ok([fresh EXCEPT !.data = node.data], rem, 2, 0)
          ELSE IF mism < retrieve_retries
          THEN Ok([fresh EXCEPT !.data = node.data], rem, 2 * (mism + 1), 0)
          ELSE Res([fresh EXCEPT !.data = part], rem, "Exception", 0,
                   2 * retrieve_retries, 0, << >>)

\* CachedFile.write with self.changed = True as its first statement
write_marks_first(cf, rem, buf, offset, mism, part) ==
    LET r == retrieve([cf EXCEPT !.changed = TRUE], rem, mism, part)
    IN  IF r.exc # "none" THEN r
        ELSE Ok([r.cf EXCEPT !.data = WriteAt(@, offset, buf)], rem, r.calls, 0)

\* CachedFile.write
cf_write(cf, rem, buf, offset, mism, part) ==
    LET r == retrieve(cf, rem, mism, part)
    IN  IF r.exc # "none" THEN r
        ELSE Ok([r.cf EXCEPT !.data = WriteAt(@, offset, buf), !.changed = TRUE],
                rem, r.calls, 0)

\* CachedFile._upload. srv = "error": upload_file gives up on server errors
\* after its retries.
upload(cf, rem, srv) ==
    IF cf.path = NoPath THEN Ok(cf, rem, 0, 0)
    ELSE
      LET exists == file_exists(rem, cf.path) # "none"
          rem1 == IF exists THEN api_file_remove(rem, cf.path) ELSE rem
          n == IF exists THEN 2 ELSE 1
      IN  IF srv = "error"
          THEN Res(cf, rem1, "ServerError", 0, n + 1, 1, << >>)
          ELSE Ok(cf, upload_file(rem1, cf.path, cf.data), n + 2, 1)

\* CachedFile.flush: a flush that forgets the upload
flush_no_upload(cf, rem, srv) == Ok([cf EXCEPT !.changed = FALSE], rem, 0, 0)

\* CachedFile.flush
flush(cf, rem, srv) ==
    IF cf.changed
    THEN LET r == upload(cf, rem, srv)
         IN  IF r.exc # "none" THEN r
             ELSE [r EXCEPT !.cf = [r.cf EXCEPT !.changed = FALSE]]
    ELSE Ok([cf EXCEPT !.changed = FALSE], rem, 0, 0)

\* CachedFile.read
cf_read(cf, rem, size, offset, mism, part) ==
    LET r == retrieve(cf, rem, mism, part)
    IN  IF r.exc # "none" THEN r
        ELSE [r EXCEPT !.data = ReadAt(r.cf.data, size, offset)]

\* CachedFile.truncate: a truncate that marks the file changed and leaves
\* the flush to a later release
truncate_no_flush(cf, rem, len, srv, mism, part) ==
    LET r == IF len # 0 THEN retrieve(cf, rem, mism, part) ELSE Ok(cf, rem, 0, 0)
    IN  IF r.exc # "none" THEN r
        ELSE LET c1 == IF r.cf.fd # "none"
                       THEN [r.cf EXCEPT !.data = TruncTo(@, len)]
                       ELSE [r.cf EXCEPT !.fd = "open", !.data = << >>]
             IN  Ok([c1 EXCEPT !.changed = TRUE], rem, r.calls, 0)

\* CachedFile.truncate
cf_truncate(cf, rem, len, srv, mism, part) ==
    LET r == IF len # 0 THEN retrieve(cf, rem, mism, part) ELSE Ok(cf, rem, 0, 0)
    IN  IF r.exc # "none" THEN r
        ELSE LET c1 == IF r.cf.fd # "none"
                       THEN [r.cf EXCEPT !.data = TruncTo(@, len)]
                       ELSE [r.cf EXCEPT !.fd = "open", !.data = << >>]
                 c2 == [c1 EXCEPT !.changed = TRUE]
                 f == flush(c2, rem, srv)
             IN  [f EXCEPT !.calls = @ + r.calls]

\* CachedFile.close
close(cf) == IF cf.fd # "none" THEN [cf EXCEPT !.fd = "closed"] ELSE cf

-----------------------------------------------------------------------------
(* MRUC: the FUSE operations adapter.  Each method is an operator from the  *)
(* adapter's state st = [fd, files, objs, remote] and the call's arguments  *)
(* to what the call leaves.                                                 *)

\* What an adapter method leaves: the state, how it ended, the handle it
\* returned (0: none), the bytes it returned, and whether it closed a scratch
Out(st, exc, errno, calls, uploads, ret, data, closed) ==
    [st |-> st, exc |-> exc, errno |-> errno, calls |-> calls,
     uploads |-> uploads, ret |-> ret, data |-> data, closed |-> closed]

\* The table without the objects no handle refers to any more
Collect(fs, os) == [id \in {fs[h] : h \in DOMAIN fs} |-> os[id]]

\* The state after a CachedFile method ran on object id
WithObj(st, id, r) ==
    [st EXCEPT !.objs = [@ EXCEPT ![id] = r.cf], !.remote = r.rem]

\* MRUC.open, the scan: an open that never finds the path in the table
scan_nothing(fs, os, path) == {}

\* MRUC.open, the scan of self.files.values() for the path: the objects
\* that match
scan(fs, os, path) == {fs[h] : h \in {k \in DOMAIN fs : os[fs[k]].path = path}}

\* MRUC.open. pick: the object the scan meets first (0: no object matches)
mruc_open(st, path, creat, trunc, pick, srv) ==
    LET file_type == file_exists(st.remote, path)
    IN  IF file_type = "folder"
        THEN Out(st, "FuseOSError", 0 - EACCES, 1, 0, 0, << >>, FALSE)
        ELSE
          LET new_fd == st.fd + 1
              id == IF pick # 0 THEN pick ELSE new_fd
              os1 == IF pick # 0
                     THEN [st.objs EXCEPT ![pick] = inc_ref(@)]
                     ELSE st.objs @@ (new_fd :> NewCachedFile(path))
              st1 == [st EXCEPT !.fd = new_fd,
                                !.files = @ @@ (new_fd :> id),
                                !.objs = os1]
          IN  IF (file_type = "none" /\ creat) \/ (file_type # "none" /\ trunc)
              THEN LET r == cf_truncate(os1[id], st.remote, 0, srv, 0, << >>)
                   IN  Out(WithObj(st1, id, r), r.exc, r.errno, r.calls + 1,
                           r.uploads, IF r.exc = "none" THEN new_fd ELSE 0,
                           << >>, FALSE)
              ELSE IF file_type = "none"
              THEN Out(st1, "FuseOSError", ENOENT, 1, 0, 0, << >>, FALSE)
              ELSE Out(st1, "none", 0, 1, 0, new_fd, << >>, FALSE)

\* MRUC.create
mruc_create(st, path, pick, srv) == mruc_open(st, path, TRUE, TRUE, pick, srv)

\* MRUC.read
mruc_read(st, size, offset, fh, mism, part) ==
    LET r == cf_read(st.objs[st.files[fh]], st.remote, size, offset, mism, part)
    IN  Out(WithObj(st, st.files[fh], r), r.exc, r.errno, r.calls, r.uploads,
            0, r.data, FALSE)

\* MRUC.write
mruc_write(st, data, offset, fh, mism, part) ==
    LET r == cf_write(st.objs[st.files[fh]], st.remote, data, offset, mism, part)
    IN  Out(WithObj(st, st.files[fh], r), r.exc, r.errno, r.calls, r.uploads,
            0, << >>, FALSE)

\* MRUC.flush and MRUC.fsync
mruc_flush(st, fh, srv) ==
    LET r == flush(st.objs[st.files[fh]], st.remote, srv)
    IN  Out(WithObj(st, st.files[fh], r), r.exc, r.errno, r.calls, r.uploads,
            0, << >>, FALSE)

\* MRUC.truncate. fh = 0: no file handle
mruc_truncate(st, path, length, fh, srv, mism, part) ==
    IF fh = 0
    THEN LET r == cf_truncate(NewCachedFile(path), st.remote, length, srv, mism, part)
         IN  Out([st EXCEPT !.remote = r.rem], r.exc, r.errno, r.calls,
                 r.uploads, 0, << >>, r.exc = "none" /\ close(r.cf).fd = "closed")
    ELSE LET r == cf_truncate(st.objs[st.files[fh]], st.remote, length, srv, mism, part)
         IN  Out(WithObj(st, st.files[fh], r), r.exc, r.errno, r.calls,
                 r.uploads, 0, << >>, FALSE)

\* MRUC.release
mruc_release(st, fh, srv) ==
    LET id == st.files[fh]
        r == flush(st.objs[id], st.remote, srv)
    IN  IF r.exc # "none"
        THEN Out(WithObj(st, id, r), r.exc, r.errno, r.calls, r.uploads,
                 0, << >>, FALSE)
        ELSE
          LET fo == dec_ref(r.cf)
              fo2 == IF ~has_refs(fo) THEN close(fo) ELSE fo
              fs == [h \in DOMAIN st.files \ {fh} |-> st.files[h]]
              os == [st.objs EXCEPT ![id] = fo2]
          IN  Out([st EXCEPT !.files = fs, !.objs = Collect(fs, os),
                             !.remote = r.rem],
                  "none", 0, r.calls, r.uploads, 0, << >>,
                  ~has_refs(fo) /\ fo2.fd = "closed")

\* MRUC.unlink, the loop over self.files.values(): an unlink that leaves the
\* paths of the open CachedFiles alone
unpin(os, path) == os

\* MRUC.unlink, the loop over self.files.values()
pin(os, path) ==
    [id \in DOMAIN os |->
        IF os[id].path = path THEN [os[id] EXCEPT !.path = NoPath] ELSE os[id]]

\* MRUC.unlink. srv = "error": api_file_remove gives up after its retries
mruc_unlink(st, path, srv) ==
    LET st1 == [st EXCEPT !.objs = pin(@, path)]
    IN  IF srv = "error"
        THEN Out(st1, "ServerError", 0, 1, 0, 0, << >>, FALSE)
        ELSE Out([st1 EXCEPT !.remote = api_file_remove(@, path)],
                 "none", 0, 1, 0, 0, << >>, FALSE)

\* Cloud.api_file_rename with conflict = "strict", as the remote answers it
api_file_rename(rem, path, new_name) ==
    LET target == dirname(path) \o <<new_name>>
    IN  IF rem[path].kind = "none" THEN [rem |-> rem, exc |-> "NotFoundError"]
        ELSE IF rem[target].kind # "none"
        THEN [rem |-> rem, exc |-> "FileExistsError"]
        ELSE [rem |-> [rem EXCEPT ![target] = rem[path], ![path] = Absent],
              exc |-> "none"]

\* MRUC.rename, the test of the two parent directories: a test that lets
\* every pair through
same_dir_always(old, new) == TRUE

\* MRUC.rename, the test of the two parent directories
same_dir(old, new) == dirname(old) = dirname(new)

\* MRUC.rename
mruc_rename(st, old, new, srv) ==
    IF same_dir(old, new)
    THEN LET exists == file_exists(st.remote, new) # "none"
             u == IF exists THEN mruc_unlink(st, new, srv)
                  ELSE Out(st, "none", 0, 0, 0, 0, << >>, FALSE)
         IN  IF u.exc # "none" THEN [u EXCEPT !.calls = @ + 1]
             ELSE LET m == api_file_rename(u.st.remote, old, basename(new))
                  IN  Out([u.st EXCEPT !.remote = m.rem], m.exc, 0,
                          u.calls + 2, 0, 0, << >>, FALSE)
    ELSE Out(st, "FuseOSError", ENOTSUP, 0, 0, 0, << >>, FALSE)

-----------------------------------------------------------------------------
(* The retry policies of the remote-store client.  A call through          *)
(* retry_on_server_error and a call of upload_blob are fed the same stream *)
(* of attempt outcomes: "ok", the retried errors "ServerError" and         *)
(* "ConnectionError", and "NotFoundError", which neither catches.          *)

max_retries == 1000
retry_wait == 1

Outcomes == {"ok", "ServerError", "ConnectionError", "NotFoundError"}
Retried == {"ServerError", "ConnectionError"}

\* A call: where it is ("call": about to attempt; "returned"; "raised"), its
\* retries counter, the attempts it made, the seconds it slept, and the
\* error it raised
NewCall == [pc |-> "call", retries |-> 0, attempts |-> 0, slept |-> 0, exc |-> "none"]

\* retry_on_server_error with the test of the counter placed before the
\* increment, as upload_blob has it
wrapped_late(c, outcome) ==
    IF outcome = "ok" THEN [c EXCEPT !.pc = "returned", !.attempts = @ + 1]
    ELSE IF outcome \notin Retried
    THEN [c EXCEPT !.pc = "raised", !.attempts = @ + 1, !.exc = outcome]
    ELSE IF c.retries = max_retries
    THEN [c EXCEPT !.pc = "raised", !.attempts = @ + 1, !.exc = outcome]
    ELSE [c EXCEPT !.attempts = @ + 1, !.retries = @ + 1, !.slept = @ + retry_wait]

\* retry_on_server_error with an except clause that catches every exception
wrapped_all(c, outcome) ==
    IF outcome = "ok" THEN [c EXCEPT !.pc = "returned", !.attempts = @ + 1]
    ELSE IF c.retries + 1 = max_retries
    THEN [c EXCEPT !.pc = "raised", !.attempts = @ + 1, !.retries = @ + 1,
                   !.slept = @ + retry_wait, !.exc = outcome]
    ELSE [c EXCEPT !.attempts = @ + 1, !.retries = @ + 1, !.slept = @ + retry_wait]

\* retry_on_server_error, wrapped: one pass of its loop, an attempt that
\* ends with outcome
wrapped(c, outcome) ==
    IF outcome = "ok" THEN [c EXCEPT !.pc = "returned", !.attempts = @ + 1]
    ELSE IF outcome \notin Retried
    THEN [c EXCEPT !.pc = "raised", !.attempts = @ + 1, !.exc = outcome]
    ELSE IF c.retries + 1 = max_retries
    THEN [c EXCEPT !.pc = "raised", !.attempts = @ + 1, !.retries = @ + 1,
                   !.slept = @ + retry_wait, !.exc = outcome]
    ELSE [c EXCEPT !.attempts = @ + 1, !.retries = @ + 1, !.slept = @ + retry_wait]

\* Cloud.upload_blob: one pass of its loop, an attempt that ends with outcome
upload_blob(c, outcome) ==
    IF outcome = "ok" THEN [c EXCEPT !.pc = "returned", !.attempts = @ + 1]
    ELSE IF outcome \notin Retried
    THEN [c EXCEPT !.pc = "raised", !.attempts = @ + 1, !.exc = outcome]
    ELSE IF c.retries = max_retries
    THEN [c EXCEPT !.pc = "raised", !.attempts = @ + 1, !.exc = outcome]
    ELSE [c EXCEPT !.attempts = @ + 1, !.retries = @ + 1, !.slept = @ + retry_wait]

\* The two calls and the stream fed so far: how many retried errors in a row
\* (fails) and the outcome fed last
RtIdle == [w |-> NewCall, u |-> NewCall, fails |-> 0, fed |-> "none"]

-----------------------------------------------------------------------------
(* Cloud.dir_list over a remote folder of n entries numbered 1..n.         *)

page_size == 500
\* most entries a listed folder holds
MaxEntries == 1001

\* Cloud.api_folder(path, page) as the remote answers it: limit=500,
\* offset=500*page
api_folder(n, folders, page) ==
    [list |-> [i \in 1..(IF n - page_size * page < 0 THEN 0
                         ELSE Min(page_size, n - page_size * page))
                  |-> page_size * page + i],
     count |-> [files |-> n - folders, folders |-> folders]]

\* Cloud.dir_list, the page count, with the - 1 forgotten
pages_plain(items_count) == items_count \div page_size + 1

\* Cloud.dir_list, the page count: (items_count - 1) / 500 + 1 in Python 2,
\* whose / on integers rounds down
pages_of(items_count) == (items_count - 1) \div page_size + 1

DlIdle == [pc |-> "idle", n |-> 0, folders |-> 0, exists |-> TRUE, items |-> << >>,
           pages |-> 0, page |-> 0, requested |-> << >>]

-----------------------------------------------------------------------------
(* The decorated operations of Cloud, as each treats one answer of the     *)
(* remote.  An answer is the HTTP status and, for a 404, the error the     *)
(* body names under body.home.error; status 0 stands for no answer at all  *)
(* (requests.ConnectionError).  What an attempt ends with is "ok" or the   *)
(* name of the exception it raises.                                        *)

Errors == {"not_exists", "exists", "invalid"}
Answer(status, error) == [status |-> status, error |-> error]
Answers ==
    {Answer(200, "none"), Answer(500, "none"), Answer(0, "none")}
    \cup {Answer(404, e) : e \in Errors}

\* Cloud.api_folder and Cloud.api_file
api_file_response(a) ==
    IF a.status = 0 THEN "ConnectionError"
    ELSE IF a.status \notin {200, 404} THEN "ServerError"
    ELSE IF a.status = 200 THEN "ok"
    ELSE IF a.error # "not_exists" THEN "AssertionError"
    ELSE "NotFoundError"

\* Cloud.api_zip and Cloud.get_file_reader
api_zip_response(a) ==
    IF a.status = 0 THEN "ConnectionError"
    ELSE IF a.status \notin {200, 404} THEN "ServerError"
    ELSE IF a.status = 200 THEN "ok"
    ELSE "NotFoundError"

\* Cloud.api_file_add and Cloud.api_folder_add
api_file_add_response(a) ==
    IF a.status = 0 THEN "ConnectionError"
    ELSE IF a.status \notin {200, 404} THEN "ServerError"
    ELSE IF a.status = 200 THEN "ok"
    ELSE IF a.error # "exists" THEN "AssertionError"
    ELSE "FileExistsError"

\* Cloud.api_file_rename
api_file_rename_response(a) ==
    IF a.status = 0 THEN "ConnectionError"
    ELSE IF a.status \notin {200, 404} THEN "ServerError"
    ELSE IF a.status = 200 THEN "ok"
    ELSE IF a.error \notin {"not_exists", "exists", "invalid"} THEN "AssertionError"
    ELSE IF a.error = "not_exists" THEN "NotFoundError"
    ELSE "FileExistsError"

\* Cloud.api_file_remove and Cloud.api_file_move
api_file_remove_response(a) ==
    IF a.status = 0 THEN "ConnectionError"
    ELSE IF a.status # 200 THEN "ServerError"
    ELSE "ok"

\* The decorated operations that talk to the store
Ops == {"api_folder", "api_file", "api_zip", "api_file_add", "api_file_move",
        "api_file_remove", "api_folder_add", "api_file_rename", "get_file_reader"}

\* What one attempt of op ends with when the remote answers a
response(op, a) ==
    CASE op \in {"api_folder", "api_file"} -> api_file_response(a)
      [] op \in {"api_zip", "get_file_reader"} -> api_zip_response(a)
      [] op \in {"api_file_add", "api_folder_add"} -> api_file_add_response(a)
      [] op = "api_file_rename" -> api_file_rename_response(a)
      [] op \in {"api_file_remove", "api_file_move"} -> api_file_remove_response(a)

\* A call of op through retry_on_server_error: the call, the answer its
\* last attempt got, and whether every attempt so far got that same answer
RqIdle == [op |-> "none", c |-> NewCall, answer |-> Answer(0, "none"), same |-> TRUE]

-----------------------------------------------------------------------------
(* CachedFile._retrieve, one pass of its loop at a time.  A pass is given  *)
(* what api_file and get_file_reader end with ("ok", "NotFoundError", or   *)
(* the "ServerError" they raise after their own retries), the size the     *)
(* metadata reports and the bytes the stream delivers.                     *)

Calls == {"ok", "NotFoundError", "ServerError"}

\* A call of _retrieve: where it is ("start"; "loop": in the while loop;
\* "returned"; "raised"), whether self.path is a path, the scratch (fd and
\* its bytes), the dirty flag, the retries counter, the passes made, the
\* passes that ended in a size mismatch, the expected size and the bytes
\* the last pass received, how the call returned ("had": there was a
\* scratch before; "reader": the reader raised NotFoundError; "match": the
\* sizes matched) and what it raised
RvIdle ==
    [pc |-> "idle", has_path |-> TRUE, fd |-> "none", data |-> << >>,
     changed |-> FALSE, retries |-> 0, attempts |-> 0, mismatches |-> 0,
     expected |-> 0, got |-> << >>, end |-> "none", exc |-> "none", errno |-> 0]

\* self.fd = tempfile.TemporaryFile(...), made once and kept over the passes
keep_scratch(r) == [r EXCEPT !.fd = "open"]

\* self.fd = tempfile.TemporaryFile(...): a new, empty scratch
new_scratch(r) == [r EXCEPT !.fd = "open", !.data = << >>]

\* if not self.fd: retries = 10
enter(r) ==
    IF r.fd # "none" THEN [r EXCEPT !.pc = "returned", !.end = "had"]
    ELSE [r EXCEPT !.pc = "loop", !.retries = retrieve_retries]

\* One pass of the while loop
attempt(r, meta, reader, expected, recv) ==
    IF ~r.has_path
    THEN [r EXCEPT !.pc = "raised", !.exc = "FuseOSError", !.errno = EACCES]
    ELSE
      LET r1 == [new_scratch(r) EXCEPT !.attempts = @ + 1]
      IN  IF meta = "NotFoundError"
          THEN [r1 EXCEPT !.pc = "raised", !.exc = "FuseOSError", !.errno = ENOENT]
          ELSE IF meta # "ok"
          THEN [r1 EXCEPT !.pc = "raised", !.exc = meta]
          ELSE IF reader = "NotFoundError"
          THEN [r1 EXCEPT !.pc = "returned", !.end = "reader", !.expected = expected]
          ELSE IF reader # "ok"
          THEN [r1 EXCEPT !.pc = "raised", !.exc = reader, !.expected = expected]
          ELSE
            LET r2 == [r1 EXCEPT !.data = @ \o recv, !.got = recv,
                                 !.expected = expected]
            IN  IF Len(recv) = expected
                THEN [r2 EXCEPT !.pc = "returned", !.end = "match"]
                ELSE IF r2.retries - 1 = 0
                THEN [r2 EXCEPT !.retries = @ - 1, !.mismatches = @ + 1,
                                !.pc = "raised", !.exc = "Exception"]
                ELSE [r2 EXCEPT !.retries = @ - 1, !.mismatches = @ + 1]

-----------------------------------------------------------------------------
(* The adapter as a state machine: the kernel calls one operation at a time *)
(* (nothreads=True), on the handles open returned to it.                    *)

EmptyFn == [x \in {} |-> 0]
Srv == {"ok", "error"}
Mismatches == {0, retrieve_retries - 1, retrieve_retries}

\* The inputs that make a difference: a download goes wrong only when there
\* is one, of a content that can be cut short; the server fails an upload or
\* a removal only when there is one
MismFor(M, cf) ==
    IF cf.fd = "none" /\ cf.path # NoPath /\ remote[cf.path].kind = "file"
       /\ remote[cf.path].body /\ remote[cf.path].data # << >>
    THEN M ELSE {0}
SrvFor(S, cf) == IF cf.changed /\ cf.path # NoPath THEN S ELSE {"ok"}
\* the paths open and create are called with: a file path and the folder
OpenPaths == {PathA, PathD}

St == [fd |-> fd, files |-> files, objs |-> objs, remote |-> remote]

\* What a cut download of the object behind handle fh can deliver
Parts(fh) ==
    LET p == objs[files[fh]].path
    IN  IF p = NoPath \/ remote[p].data = << >> THEN {<< >>}
        ELSE StrictPrefixes(remote[p].data)
PartsOf(path) ==
    IF remote[path].data = << >> THEN {<< >>} ELSE StrictPrefixes(remote[path].data)

NoChain ==
    [ph |-> "none", h |-> 0, p |-> NoPath, stale |-> FALSE, off |-> 0,
     buf |-> << >>, h2 |-> 0, p2 |-> NoPath, samegen |-> FALSE,
     trunc |-> FALSE, got |-> << >>]

\* The record of an operation, holding what the properties below read of
\* it: op; its handle (0: none); its path; its length argument; for a
\* rename, whether the two parents differ (cross); how it ended; the remote
\* calls a rename issued; the uploads it issued; whether it closed a
\* scratch; whether it changed the remote node at its path (wrote); and
\* whether unlink had run on the handle's path while the handle was dirty
\* (pinned)
Last(op, fh, path, len, cross, o, calls, wrote) ==
    [op |-> op, fh |-> fh, path |-> path, len |-> len, cross |-> cross,
     exc |-> o.exc, errno |-> o.errno, calls |-> calls, uploads |-> o.uploads,
     closed |-> o.closed, wrote |-> wrote,
     pinned |-> IF fh = 0 THEN FALSE ELSE opened[fh].pinned]

\* Whether the operation changed the remote node at path
Wrote(o, path) == o.st.remote[path] # remote[path]

Commit(o) ==
    /\ fd' = o.st.fd
    /\ files' = o.st.files
    /\ objs' = o.st.objs
    /\ remote' = o.st.remote
    /\ UNCHANGED <<rt, dl, rq, rv>>

\* unlink(path) ran: the handles opened on path are stale, and pinned when
\* their CachedFile was dirty
Unlinked(path) ==
    [h \in DOMAIN opened |->
        IF opened[h].path = path
        THEN [opened[h] EXCEPT !.stale = TRUE,
                               !.pinned = @ \/ objs[files[h]].changed]
        ELSE opened[h]]

\* rename(old, new) ran on the handles hs: when it returned (done), the
\* remote object of the handles opened on old has moved away
Moved(hs, old, done) ==
    [h \in DOMAIN hs |->
        IF done /\ hs[h].path = old THEN [hs[h] EXCEPT !.moved = TRUE] ELSE hs[h]]

\* The generation of a handle that open(path) returns: that of the handles
\* opened on path since it was last unlinked, when there are any
GenOf(path, new_fd) ==
    LET live == {h \in DOMAIN opened : opened[h].path = path /\ ~opened[h].stale}
    IN  IF live = {} THEN new_fd ELSE opened[CHOOSE h \in live : TRUE].gen

OpenStep(op, o, path, trunc) ==
    /\ Commit(o)
    /\ last' = Last(op, 0, path, 0, FALSE, o, 0, FALSE)
    /\ opened' = IF o.ret = 0 THEN opened
                 ELSE opened @@ (o.ret :> [path |-> path, gen |-> GenOf(path, o.ret),
                                           stale |-> FALSE, pinned |-> FALSE,
                                           moved |-> FALSE])
    /\ chain' = IF op = "open" /\ o.ret # 0 /\ chain.ph = "wl" /\ chain.p = path
                THEN [chain EXCEPT !.ph = "wlo", !.h2 = o.ret, !.trunc = trunc]
                ELSE NoChain

Open(path, creat, trunc, srv) ==
    /\ fd < MaxFd
    /\ \E pick \in (IF scan(files, objs, path) = {} THEN {0}
                    ELSE scan(files, objs, path)) :
          \E o \in {mruc_open(St, path, creat, trunc, pick, srv)} :
             OpenStep("open", o, path, trunc)

Create(path, srv) ==
    /\ fd < MaxFd
    /\ \E pick \in (IF scan(files, objs, path) = {} THEN {0}
                    ELSE scan(files, objs, path)) :
          \E o \in {mruc_create(St, path, pick, srv)} :
             OpenStep("create", o, path, TRUE)

Read(fh, size, offset, mism) ==
    \E part \in Parts(fh) :
      \E o \in {mruc_read(St, size, offset, fh, mism, part)} :
        \E fits \in {o.exc = "none" /\ size = Len(chain.buf) /\ offset = chain.off} :
          /\ Commit(o)
          /\ last' = Last("read", fh, NoPath, 0, FALSE, o, 0, FALSE)
          /\ opened' = opened
          /\ chain' =
               IF fits /\ chain.ph = "w" /\ fh # chain.h
               THEN [chain EXCEPT !.ph = "wr", !.h2 = fh, !.p2 = opened[fh].path,
                                  !.samegen = (opened[fh].gen = opened[chain.h].gen),
                                  !.got = o.data]
               ELSE IF fits /\ chain.ph = "wlo" /\ fh = chain.h2
               THEN [chain EXCEPT !.ph = "wlor", !.got = o.data]
               ELSE NoChain

Write(fh, buf, offset, mism) ==
    \E part \in Parts(fh) :
      \E o \in {mruc_write(St, buf, offset, fh, mism, part)} :
          /\ Commit(o)
          /\ last' = Last("write", fh, NoPath, 0, FALSE, o, 0, FALSE)
          /\ opened' = opened
          /\ chain' = IF o.exc = "none"
                      THEN [NoChain EXCEPT !.ph = "w", !.h = fh, !.p = opened[fh].path,
                                           !.stale = opened[fh].stale,
                                           !.off = offset, !.buf = buf]
                      ELSE NoChain

Flush(fh, srv) ==
    \E o \in {mruc_flush(St, fh, srv)} :
        /\ Commit(o)
        /\ last' = Last("flush", fh, opened[fh].path, 0, FALSE, o, 0,
                         Wrote(o, opened[fh].path))
        /\ opened' = opened
        /\ chain' = NoChain

Fsync(fh, srv) ==
    \E o \in {mruc_flush(St, fh, srv)} :
        /\ Commit(o)
        /\ last' = Last("fsync", fh, opened[fh].path, 0, FALSE, o, 0,
                         Wrote(o, opened[fh].path))
        /\ opened' = opened
        /\ chain' = NoChain

Truncate(path, length, fh, srv, mism) ==
    \E part \in PartsOf(path) :
      \E o \in {mruc_truncate(St, path, length, fh, srv, mism, part)} :
          /\ Commit(o)
          /\ last' = Last("truncate", fh, path, length, FALSE, o, 0, Wrote(o, path))
          /\ opened' = opened
          /\ chain' = NoChain

Release(fh, srv) ==
    \E o \in {mruc_release(St, fh, srv)} :
        /\ Commit(o)
        /\ last' = Last("release", fh, opened[fh].path, 0, FALSE, o, 0,
                         Wrote(o, opened[fh].path))
        /\ opened' = [h \in DOMAIN opened \ {fh} |-> opened[h]]
        /\ chain' = IF o.exc = "none" /\ chain.ph = "w" /\ chain.h = fh
                    THEN [chain EXCEPT !.ph = "wl"]
                    ELSE NoChain

Unlink(path, srv) ==
    \E o \in {mruc_unlink(St, path, srv)} :
        /\ Commit(o)
        /\ last' = Last("unlink", 0, NoPath, 0, FALSE, o, 0, FALSE)
        /\ opened' = Unlinked(path)
        /\ chain' = NoChain

Rename(old, new, srv) ==
    \E o \in {mruc_rename(St, old, new, srv)} :
        /\ Commit(o)
        /\ last' = Last("rename", 0, NoPath, 0, dirname(old) # dirname(new), o,
                         o.calls, FALSE)
        /\ opened' = Moved(IF same_dir(old, new) /\ file_exists(remote, new) # "none"
                           THEN Unlinked(new) ELSE opened,
                           old, o.exc = "none" /\ same_dir(old, new))
        /\ chain' = NoChain

Init ==
    /\ fd = 0
    /\ files = EmptyFn
    /\ objs = EmptyFn
    /\ \E a \in {Absent} \cup {File(c, TRUE) : c \in Buffers} :
          remote = [q \in AllPaths |->
                      IF q = PathA THEN a ELSE IF q = PathD THEN Folder ELSE Absent]
    /\ opened = EmptyFn
    /\ last = [op |-> "init", fh |-> 0, path |-> NoPath, len |-> 0, cross |-> FALSE,
               exc |-> "none", errno |-> 0, calls |-> 0, uploads |-> 0,
               closed |-> FALSE, wrote |-> FALSE, pinned |-> FALSE]
    /\ chain = NoChain
    /\ rt = RtIdle
    /\ dl = DlIdle
    /\ rq = RqIdle
    /\ rv = RvIdle

\* The operations the kernel may call, the server answering from S and the
\* downloads going wrong as in M
Step(S, M) ==
    \/ \E path \in OpenPaths, creat \in BOOLEAN, trunc \in BOOLEAN, srv \in S :
          Open(path, creat, trunc, srv)
    \/ \E path \in OpenPaths, srv \in S : Create(path, srv)
    \/ \E fh \in DOMAIN opened, size \in 1..MaxLen, offset \in 0..(MaxLen - 1) :
          \E mism \in MismFor(M, objs[files[fh]]) : Read(fh, size, offset, mism)
    \/ \E fh \in DOMAIN opened, buf \in Buffers, offset \in 0..(MaxLen - 1) :
          /\ offset + Len(buf) <= MaxLen
          /\ \E mism \in MismFor(M, objs[files[fh]]) : Write(fh, buf, offset, mism)
    \/ \E fh \in DOMAIN opened : \E srv \in SrvFor(S, objs[files[fh]]) : Flush(fh, srv)
    \/ \E fh \in DOMAIN opened : \E srv \in SrvFor(S, objs[files[fh]]) : Fsync(fh, srv)
    \/ \E path \in FilePaths, length \in 0..MaxTruncate, srv \in S :
          \E mism \in (IF length = 0 THEN {0} ELSE MismFor(M, NewCachedFile(path))) :
             Truncate(path, length, 0, srv, mism)
    \/ \E fh \in DOMAIN opened, length \in 0..MaxTruncate, srv \in S :
          \E mism \in (IF length = 0 THEN {0} ELSE MismFor(M, objs[files[fh]])) :
             Truncate(opened[fh].path, length, fh, srv, mism)
    \/ \E fh \in DOMAIN opened : \E srv \in SrvFor(S, objs[files[fh]]) : Release(fh, srv)
    \/ \E path \in FilePaths, srv \in S : Unlink(path, srv)
    \/ \E old \in RenamePaths, new \in RenamePaths, srv \in S : Rename(old, new, srv)

Next == Step(Srv, Mismatches)

\* The same with a server that never gives up and downloads that arrive whole
NextQuiet == Step({"ok"}, {0})

Spec == Init /\ [][Next]_vars

SpecQuiet == Init /\ [][NextQuiet]_vars

-----------------------------------------------------------------------------
(* The retry policies as a state machine: the remote answers one attempt   *)
(* at a time, and each call still running makes that attempt.              *)

Idle ==
    /\ fd = 0
    /\ files = EmptyFn
    /\ objs = EmptyFn
    /\ remote = [q \in AllPaths |-> IF q = PathD THEN Folder ELSE Absent]
    /\ opened = EmptyFn
    /\ last = [op |-> "init", fh |-> 0, path |-> NoPath, len |-> 0, cross |-> FALSE,
               exc |-> "none", errno |-> 0, calls |-> 0, uploads |-> 0,
               closed |-> FALSE, wrote |-> FALSE, pinned |-> FALSE]
    /\ chain = NoChain

Feed(outcome) ==
    /\ rt.w.pc = "call" \/ rt.u.pc = "call"
    /\ rt' = [w |-> IF rt.w.pc = "call" THEN wrapped(rt.w, outcome) ELSE rt.w,
              u |-> IF rt.u.pc = "call" THEN upload_blob(rt.u, outcome) ELSE rt.u,
              fails |-> IF outcome \in Retried THEN rt.fails + 1 ELSE rt.fails,
              fed |-> outcome]
    /\ UNCHANGED <<fd, files, objs, remote, opened, last, chain, dl, rq, rv>>

InitRetry == Idle /\ rt = RtIdle /\ dl = DlIdle /\ rq = RqIdle /\ rv = RvIdle

NextRetry ==
    \/ Feed("ok")
    \/ \E e \in Retried : Feed(e)
    \/ Feed("NotFoundError")

SpecRetry == InitRetry /\ [][NextRetry]_vars

-----------------------------------------------------------------------------
(* Cloud.dir_list as a state machine: one request to the remote at a time  *)

FirstPage ==
    /\ dl.pc = "start"
    /\ dl' = IF ~dl.exists THEN [dl EXCEPT !.pc = "raised", !.requested = <<0>>]
             ELSE LET resp == api_folder(dl.n, dl.folders, 0)
                  IN  [dl EXCEPT !.pc = "loop",
                                 !.items = resp.list,
                                 !.pages = pages_of(resp.count.files + resp.count.folders),
                                 !.page = 1,
                                 !.requested = <<0>>]
    /\ UNCHANGED <<fd, files, objs, remote, opened, last, chain, rt, rq, rv>>

NextPage ==
    /\ dl.pc = "loop"
    /\ dl.page < dl.pages
    /\ dl' = [dl EXCEPT !.items = @ \o api_folder(dl.n, dl.folders, dl.page).list,
                        !.requested = Append(@, dl.page),
                        !.page = @ + 1]
    /\ UNCHANGED <<fd, files, objs, remote, opened, last, chain, rt, rq, rv>>

Return ==
    /\ dl.pc = "loop"
    /\ ~(dl.page < dl.pages)
    /\ dl' = [dl EXCEPT !.pc = "done"]
    /\ UNCHANGED <<fd, files, objs, remote, opened, last, chain, rt, rq, rv>>

InitDirList ==
    /\ Idle
    /\ rt = RtIdle
    /\ rq = RqIdle
    /\ rv = RvIdle
    /\ \E n \in 0..MaxEntries, folders \in {0, 1}, exists \in BOOLEAN :
          /\ folders <= n
          /\ exists \/ n = 0
          /\ dl = [DlIdle EXCEPT !.pc = "start", !.n = n, !.folders = folders,
                                 !.exists = exists]

NextDirList == FirstPage \/ NextPage \/ Return

SpecDirList == InitDirList /\ [][NextDirList]_vars

-----------------------------------------------------------------------------
(* A decorated operation as a state machine: the remote answers one        *)
(* attempt at a time                                                       *)

Request(a) ==
    /\ rq.c.pc = "call"
    /\ rq' = [rq EXCEPT !.c = wrapped(@, response(rq.op, a)),
                        !.answer = a,
                        !.same = rq.same /\ (rq.c.attempts = 0 \/ rq.answer = a)]
    /\ UNCHANGED <<fd, files, objs, remote, opened, last, chain, rt, dl, rv>>

InitClient ==
    /\ Idle
    /\ rt = RtIdle
    /\ dl = DlIdle
    /\ rv = RvIdle
    /\ \E op \in Ops : rq = [RqIdle EXCEPT !.op = op]

NextClient ==
    \/ Request(Answer(200, "none"))
    \/ \E status \in {0, 500} : Request(Answer(status, "none"))
    \/ \E e \in Errors : Request(Answer(404, e))

SpecClient == InitClient /\ [][NextClient]_vars

-----------------------------------------------------------------------------
(* CachedFile._retrieve as a state machine                                 *)

Enter ==
    /\ rv.pc = "start"
    /\ rv' = enter(rv)
    /\ UNCHANGED <<fd, files, objs, remote, opened, last, chain, rt, dl, rq>>

Attempt(meta, reader, expected, recv) ==
    /\ rv.pc = "loop"
    /\ rv' = attempt(rv, meta, reader, expected, recv)
    /\ UNCHANGED <<fd, files, objs, remote, opened, last, chain, rt, dl, rq>>

\* A CachedFile as the adapter can hold it: without a scratch and clean, or
\* with a scratch; with or without a path
InitRetrieve ==
    /\ Idle
    /\ rt = RtIdle
    /\ dl = DlIdle
    /\ rq = RqIdle
    /\ \E has_path \in BOOLEAN, has_fd \in BOOLEAN, data \in Contents,
          changed \in BOOLEAN :
          /\ ~has_fd => (~changed /\ data = << >>)
          /\ rv = [RvIdle EXCEPT !.pc = "start", !.has_path = has_path,
                                 !.fd = IF has_fd THEN "open" ELSE "none",
                                 !.data = data,
                                 !.changed = changed]

NextRetrieve ==
    \/ Enter
    \/ \E meta \in Calls, reader \in Calls, expected \in 0..MaxLen, recv \in Contents :
          Attempt(meta, reader, expected, recv)

SpecRetrieve == InitRetrieve /\ [][NextRetrieve]_vars

-----------------------------------------------------------------------------
(* Properties *)

HandlesOf(id) == {h \in DOMAIN files : files[h] = id}
FlushOps == {"flush", "fsync", "release"}

\* C1: any two handles of the open-file table whose CachedFile has the same
\* non-null path are mapped to the same CachedFile object, and that object's
\* ref_count is the number of handles of the table mapped to it.
C1_SharedInstance ==
    \A h1 \in DOMAIN files : \A h2 \in DOMAIN files :
        (objs[files[h1]].path # NoPath /\ objs[files[h1]].path = objs[files[h2]].path)
        => /\ files[h1] = files[h2]
           /\ objs[files[h1]].ref_count = Cardinality(HandlesOf(files[h1]))

\* C1, its case: two handles share one CachedFile of a non-null path
C1_Witness ==
    \E h1 \in DOMAIN files : \E h2 \in DOMAIN files :
        /\ h1 # h2
        /\ files[h1] = files[h2]
        /\ objs[files[h1]].path # NoPath
        /\ objs[files[h1]].ref_count = 2

\* C2 as stated: for any two unreleased handles h1 # h2 that open returned
\* on the same path, the bytes a write through h1 put at an offset are what
\* a read through h2 at that offset returns right after it.
C2_AnyTwoOpens ==
    (chain.ph = "wr" /\ chain.p2 = chain.p) => chain.got = chain.buf

\* C2 as amended: the same, for two opens with no unlink of the path (by
\* unlink, or by a rename onto it) between them.
C2_HandleSharing ==
    (chain.ph = "wr" /\ chain.p2 = chain.p /\ chain.samegen)
    => chain.got = chain.buf

\* C2, its case: a write through one handle, then a read through another
\* handle opened on the same path with no unlink between the opens
C2_Witness ==
    /\ chain.ph = "wr"
    /\ chain.p2 = chain.p
    /\ chain.samegen
    /\ chain.h # chain.h2
    /\ chain.got = chain.buf
    /\ chain.buf # << >>

\* C3 as stated: after a write through a handle on p and a release of that
\* handle that returns normally, an open of p (one that does not itself
\* truncate: without O_TRUNC) followed by a read at the write's offset
\* returns the written bytes.
C3_AnyRelease ==
    (chain.ph = "wlor" /\ ~chain.trunc) => chain.got = chain.buf

\* C3 as amended: the same, when p was not unlinked (by unlink, or by a
\* rename onto it) while the handle was open.
C3_WriteBack ==
    (chain.ph = "wlor" /\ ~chain.stale /\ ~chain.trunc) => chain.got = chain.buf

\* C3, its case: write, release, open without O_TRUNC, read, on a path that
\* was not unlinked meanwhile, the release having uploaded the scratch
C3_Witness ==
    /\ chain.ph = "wlor"
    /\ ~chain.stale
    /\ ~chain.trunc
    /\ chain.got = chain.buf
    /\ chain.buf # << >>
    /\ remote[chain.p].data = chain.buf

\* C4: once unlink(p) has run while a handle on p was open and dirty, every
\* later flush on that handle (flush, fsync or release) issues no upload and
\* leaves the remote node at p as it was.
C4_UnlinkPins ==
    (last.op \in FlushOps /\ last.pinned) => (last.uploads = 0 /\ ~last.wrote)

\* C4, its case: a release of a handle whose path was unlinked while it was
\* dirty has returned, and the path is still absent remotely
C4_Witness ==
    /\ last.op = "release"
    /\ last.pinned
    /\ last.exc = "none"
    /\ remote[last.path].kind = "none"

\* C5: whenever a flush (flush, fsync, release, or the one truncate ends
\* with) on a CachedFile of the open-file table returns normally, its path
\* is null or its scratch holds what the remote object at its path holds.
\* Stated for the CachedFiles whose scratch holds bytes.
C5_FlushedMatchesRemote ==
    (/\ last.op \in FlushOps \cup {"truncate"}
     /\ last.fh \in DOMAIN files
     /\ last.exc = "none"
     /\ objs[files[last.fh]].fd # "none"
     /\ objs[files[last.fh]].data # << >>)
    => \/ objs[files[last.fh]].path = NoPath
       \/ /\ remote[objs[files[last.fh]].path].kind = "file"
          /\ remote[objs[files[last.fh]].path].data = objs[files[last.fh]].data

\* C6: a call through retry_on_server_error whose first k attempts fail with
\* ServerError or a connection error and whose next attempt succeeds, with
\* k <= max_retries - 1, returns, having made k + 1 attempts; after
\* max_retries such failures in a row it has raised the error of the last of
\* them, and it makes no attempt beyond the max_retries-th.
C6_RetryConvergence ==
    /\ (rt.fed = "ok" /\ rt.fails <= max_retries - 1)
       => (rt.w.pc = "returned" /\ rt.w.attempts = rt.fails + 1)
    /\ (rt.fails >= max_retries)
       => (rt.w.pc = "raised" /\ rt.w.exc \in Retried /\ rt.w.attempts = max_retries)
    /\ (rt.fails = max_retries /\ rt.fed \in Retried) => rt.w.exc = rt.fed

\* C6, its case: max_retries - 1 failures, then a success that is returned
C6_Witness ==
    /\ rt.fed = "ok"
    /\ rt.fails = max_retries - 1
    /\ rt.w.pc = "returned"
    /\ rt.w.slept = (max_retries - 1) * retry_wait

\* C7: upload_blob gives up where a wrapped operation does: it makes at
\* most max_retries attempts, and it has raised whenever the wrapped call,
\* fed the same failures, has.
C7_SameGiveUp ==
    /\ rt.u.attempts <= max_retries
    /\ (rt.w.pc = "raised" /\ rt.w.exc \in Retried)
       => (rt.u.pc = "raised" /\ rt.u.attempts = rt.w.attempts)

\* C8: dir_list on a folder of n entries requests the pages
\* 0 .. max(1, ceil(n / 500)) - 1, each once and in increasing order, and
\* returns the n entries in the order of the pages.
C8_Pagination ==
    /\ dl.requested = [i \in 1..Len(dl.requested) |-> i - 1]
    /\ dl.pc = "done"
       => /\ Len(dl.requested) =
               (IF (dl.n + page_size - 1) \div page_size > 1
                THEN (dl.n + page_size - 1) \div page_size ELSE 1)
          /\ dl.items = [i \in 1..dl.n |-> i]

\* C8, its case: a folder of two full pages has been listed
C8_Witness ==
    /\ dl.pc = "done"
    /\ dl.n = 2 * page_size
    /\ dl.requested = <<0, 1>>
    /\ Len(dl.items) = dl.n

\* C9: whenever truncate(p, 0) without a file handle returns normally, the
\* remote holds a file of size 0 at p and the scratch of the CachedFile the
\* call made has been closed.
C9_TruncateNoHandle ==
    (last.op = "truncate" /\ last.fh = 0 /\ last.len = 0 /\ last.exc = "none")
    => /\ remote[last.path].kind = "file"
       /\ Len(remote[last.path].data) = 0
       /\ last.closed

\* C9, its case: a truncate(p, 0) without a handle has emptied a remote
\* file that had content
C9_Witness ==
    /\ last.op = "truncate"
    /\ last.fh = 0
    /\ last.len = 0
    /\ last.exc = "none"
    /\ last.wrote
    /\ last.uploads = 1

\* C10: a rename whose two parent directories differ fails with ENOTSUP,
\* issues no remote call, and leaves the remote store, the open-file table
\* and every CachedFile as they were.
C10_CrossDirRename ==
    [][(last'.op = "rename" /\ last'.cross)
       => /\ last'.exc = "FuseOSError"
          /\ last'.errno = ENOTSUP
          /\ last'.calls = 0
          /\ remote' = remote
          /\ files' = files
          /\ objs' = objs
          /\ fd' = fd]_vars

\* C10, its case: a cross-directory rename was refused while a dirty
\* CachedFile sat in the open-file table
C10_Witness ==
    /\ last.op = "rename"
    /\ last.cross
    /\ last.errno = ENOTSUP
    /\ \E h \in DOMAIN files : objs[files[h]].changed

\* C11: a call of api_file_remove on a path that does not exist remotely
\* returns, with no error surfaced, whatever status the remote answers for
\* the missing path (the same answer to every attempt: 200 or 404).
C11_RemoveTolerant ==
    (/\ rq.op = "api_file_remove"
     /\ rq.c.pc # "call"
     /\ rq.same
     /\ rq.answer.status \in {200, 404})
    => rq.c.pc = "returned"

\* C12: in every reachable state, the states an operation that raised
\* leaves included, every CachedFile of the open-file table that is dirty
\* has a scratch (fd is not None).
C12_DirtyHasScratch ==
    \A id \in DOMAIN objs : objs[id].changed => objs[id].fd # "none"

\* C12, its case: a release whose upload failed has left its CachedFile
\* dirty, with its scratch
C12_Witness ==
    /\ last.op = "release"
    /\ last.exc = "ServerError"
    /\ last.fh \in DOMAIN files
    /\ objs[files[last.fh]].changed
    /\ objs[files[last.fh]].fd = "open"

\* C13: when a release leaves no unreleased handle of those open and create
\* returned on the handle's CachedFile, no entry of the open-file table
\* refers to that CachedFile any more and its scratch, if it had one, has
\* been closed with its ref count at 0; and no unreleased handle ever
\* refers to a CachedFile whose scratch is closed.
C13_Lifecycle ==
    [][/\ (/\ last'.op = "release"
            /\ last'.fh \in DOMAIN opened
            /\ \A k \in DOMAIN opened' : files[k] # files[last'.fh])
           => /\ \A k \in DOMAIN files' : files'[k] # files[last'.fh]
              /\ objs[files[last'.fh]].fd = "open" => last'.closed
       /\ \A k \in DOMAIN opened' : objs'[files'[k]].fd # "closed"]_vars

\* C14: after release(fh) on a handle of the open-file table, whether its
\* flush succeeded or raised, fh is not a key of the table.  Stated for a
\* table whose other entries all belong to unreleased handles.
C14_ReleaseRemovesEntry ==
    (last.op = "release" /\ DOMAIN files \ {last.fh} \subseteq DOMAIN opened)
    => last.fh \notin DOMAIN files

\* C15: when the remote answers an attempt of folder, file, zip, file_add,
\* folder_add, file_rename or get_file_reader with a 404 that encodes
\* not-exists or already-exists, the operation raises NotFoundError and
\* FileExistsError respectively on that attempt: one request was issued for
\* it, nothing was slept and the retry counter was not incremented.
C15_SemanticNotRetried ==
    [][(/\ rq' # rq
        /\ rq'.answer.status = 404
        /\ \/ /\ rq.op \in {"api_folder", "api_file", "api_zip", "get_file_reader",
                             "api_file_rename"}
              /\ rq'.answer.error = "not_exists"
           \/ /\ rq.op \in {"api_file_add", "api_folder_add", "api_file_rename"}
              /\ rq'.answer.error = "exists")
       => /\ rq'.c.pc = "raised"
          /\ rq'.c.exc = (IF rq'.answer.error = "not_exists"
                          THEN "NotFoundError" ELSE "FileExistsError")
          /\ rq'.c.attempts = rq.c.attempts + 1
          /\ rq'.c.slept = rq.c.slept
          /\ rq'.c.retries = rq.c.retries]_vars

\* C15, its case: api_file_rename raised FileExistsError on the attempt that
\* was answered 404 "exists", after max_retries - 1 retried failures
C15_Witness ==
    /\ rq.op = "api_file_rename"
    /\ rq.c.pc = "raised"
    /\ rq.c.exc = "FileExistsError"
    /\ rq.answer = Answer(404, "exists")
    /\ rq.c.retries = max_retries - 1
    /\ rq.c.attempts = max_retries

\* C16: _retrieve on a CachedFile without a scratch makes at most 10 passes;
\* every pass works on a scratch of its own, so that the scratch holds the
\* bytes of the last pass only; the 10th size mismatch in a row raises the
\* fatal error and no 11th pass is made; a pass whose byte count matches
\* ends the call with the scratch holding exactly the received bytes; a
\* NotFoundError of the reader ends it with an empty, non-dirty scratch.
C16_RetrieveAttempts ==
    /\ rv.attempts <= retrieve_retries
    /\ (rv.attempts > 0 /\ rv.pc # "raised" /\ rv.end # "reader") => rv.data = rv.got
    /\ (rv.mismatches = retrieve_retries)
       => (rv.pc = "raised" /\ rv.exc = "Exception" /\ rv.attempts = retrieve_retries)
    /\ (rv.pc = "raised" /\ rv.exc = "Exception") => rv.mismatches = retrieve_retries
    /\ (rv.pc = "returned" /\ rv.end = "match")
       => (rv.data = rv.got /\ Len(rv.data) = rv.expected)
    /\ (rv.pc = "returned" /\ rv.end = "reader")
       => (rv.fd = "open" /\ rv.data = << >> /\ ~rv.changed)

\* C16, its case: nine mismatches, then a tenth pass whose size matches
C16_Witness ==
    /\ rv.pc = "returned"
    /\ rv.end = "match"
    /\ rv.mismatches = retrieve_retries - 1
    /\ rv.attempts = retrieve_retries
    /\ rv.data # << >>

\* C17: open and create on a path that is a remote folder fail with the
\* error code EACCES, the positive errno value, whatever the flags.
C17_OpenFolder ==
    (last.op \in {"open", "create"} /\ remote[last.path].kind = "folder")
    => (last.exc = "FuseOSError" /\ last.errno = EACCES)

\* C18: an open or create that raises leaves the open-file table with the
\* entries it had and every CachedFile with the ref count it had.
C18_FailedOpenFrame ==
    [][(last'.op \in {"open", "create"} /\ last'.exc # "none")
       => /\ files' = files
          /\ \A id \in DOMAIN objs :
                id \in DOMAIN objs' /\ objs'[id].ref_count = objs[id].ref_count]_vars

\* C19: after a read or a write that raised, which they do only out of
\* _retrieve, the CachedFile of the handle has no scratch (fd is None).
C19_FailedRetrieveNoScratch ==
    (last.op \in {"read", "write"} /\ last.exc # "none" /\ last.fh \in DOMAIN files)
    => objs[files[last.fh]].fd = "none"

\* C20: a rename within one directory that raises leaves the remote store
\* holding exactly what it held before the call.
C20_FailedRenameFrame ==
    [][(last'.op = "rename" /\ ~last'.cross /\ last'.exc # "none")
       => remote' = remote]_vars

\* C21: once rename(old, new) has returned on a handle opened on old before
\* it, no write, flush, fsync or release on that handle creates or
\* overwrites a remote object at old.
C21_RenamedNotRecreated ==
    [][(/\ last'.op \in {"write", "flush", "fsync", "release"}
        /\ last'.fh \in DOMAIN opened
        /\ opened[last'.fh].moved)
       => remote'[opened[last'.fh].path] = remote[opened[last'.fh].path]]_vars

====
